---------------------------- MODULE Spec2Model ----------------------------
(***************************************************************************)
(* bg-remove (src/main.py): the dark-mode colour inverter, the output path *)
(* resolver and the batch orchestrator of main().                          *)
(***************************************************************************)
EXTENDS Integers, Sequences, FiniteSets, TLC

(***************************************************************************)
(* float64 arithmetic.  numpy evaluates line 41 and line 54 in IEEE-754    *)
(* binary64 with round-to-nearest-even.  Every value that occurs there is  *)
(* a non-negative multiple of 2^-FracBits below 2^10, so a value is kept   *)
(* exactly, as the integer value * 2^FracBits in three limbs of LimbBits   *)
(* bits, least significant first (TLC's integers have 32 bits).            *)
(***************************************************************************)
MantBits == 53
FracBits == 56
LimbBits == 22

Pow2(n) == 2 ^ n

\* The element of a one-element set.  The({e(x) : x \in {v}}) is e of v
\* with v evaluated once.
The(S) == CHOOSE r \in S : TRUE
Base == Pow2(LimbBits)

\* Carries propagated: the limbs of c0 + c1 * Base + c2 * Base^2.
Norm(c0, c1, c2) ==
    LET s1 == c1 + (c0 \div Base)
    IN  << c0 % Base, s1 % Base, c2 + (s1 \div Base) >>

\* The exact sum of two values, and the exact product of a value and a
\* natural number below 2^8.
AddLimbs(x, y) == Norm(x[1] + y[1], x[2] + y[2], x[3] + y[3])
MulLimbs(x, k) == Norm(x[1] * k, x[2] * k, x[3] * k)

RECURSIVE FromHex(_, _, _)
FromHex(hex, i, acc) ==
    IF i > Len(hex) THEN acc
    ELSE The({FromHex(hex, i + 1, Norm(a[1] * 16 + hex[i], a[2] * 16, a[3] * 16)) :
                  a \in {acc}})

\* The binary64 number with the 14 hex digits `hex` as its 53-bit significand
\* (leading 1 included) and binary exponent e >= -4.
F64(hex, e) ==
    The({MulLimbs(m, Pow2(e + FracBits - (MantBits - 1))) :
             m \in {FromHex(hex, 1, <<0, 0, 0>>)}})

RECURSIVE BitLen(_)
BitLen(v) == IF v = 0 THEN 0 ELSE 1 + BitLen(v \div 2)

\* Position of the most significant set bit, 0 for zero.
TopBit(x) ==
    IF x[3] > 0 THEN 2 * LimbBits + BitLen(x[3])
    ELSE IF x[2] > 0 THEN LimbBits + BitLen(x[2])
    ELSE BitLen(x[1])

\* x with its d lowest bits (d <= LimbBits) rounded away, ties to even.
RoundAt(x, d) ==
    LET q    == Pow2(d)
        low  == x[1] % q
        half == q \div 2
        odd  == (x[1] \div q) % 2 = 1
        up   == low > half \/ (low = half /\ odd)
    IN  Norm(x[1] - low + (IF up THEN q ELSE 0), x[2], x[3])

\* Round-to-nearest-even to MantBits significant bits: what every float64
\* operation does to its exact result.
RoundF64(x) ==
    IF TopBit(x) <= MantBits THEN x ELSE RoundAt(x, TopBit(x) - MantBits)

\* float64 * float64 where one factor is an integer-valued k, and float64 + float64.
FMul(x, k) ==
    The({The({RoundF64(exact) : exact \in {MulLimbs(a, k)}}) : a \in {x}})
FAdd(x, y) ==
    The({The({RoundF64(exact) : exact \in {AddLimbs(a, b)}}) : a \in {x}, b \in {y}})

\* The integer part: what astype(np.uint8) keeps of a value in [0, 256).
Trunc(x) == x[3] \div Pow2(FracBits - 2 * LimbBits)

\* x < t for a float64 x >= 0 and a Python int t.
FLess(x, t) == Trunc(x) < t

Min(a, b) == IF a < b THEN a ELSE b


(***************************************************************************)
(* invert_dark_colors (lines 20-61).  An image is a sequence of rows, a    *)
(* row a sequence of pixels, a pixel <<R, G, B, A>> of 8-bit values.       *)
(***************************************************************************)

\* The literals of line 41 as float64.
C299 == F64(<<1, 3, 2, 2, 13, 0, 14, 5, 6, 0, 4, 1, 8, 9>>, -2)
C587 == F64(<<1, 2, 12, 8, 11, 4, 3, 9, 5, 8, 1, 0, 6, 2>>, -1)
C114 == F64(<<1, 13, 2, 15, 1, 10, 9, 15, 11, 14, 7, 6, 12, 9>>, -4)

\* The brightness boosts the model draws from, by the text given on the
\* command line: sign, float64 value, and whether it equals 1.0.
BoostNames == {"0.5", "1.0", "1.2", "2.0", "-1.2"}
Half == F64(<<1, 0, 0, 0, 0, 0, 0, 0, 0, 0, 0, 0, 0, 0>>, -1)
One == F64(<<1, 0, 0, 0, 0, 0, 0, 0, 0, 0, 0, 0, 0, 0>>, 0)
OnePointTwo == F64(<<1, 3, 3, 3, 3, 3, 3, 3, 3, 3, 3, 3, 3, 3>>, 0)
Two == F64(<<1, 0, 0, 0, 0, 0, 0, 0, 0, 0, 0, 0, 0, 0>>, 1)
BoostBits(b) ==
    CASE b = "0.5"  -> Half
      [] b = "1.0"  -> One
      [] b = "1.2"  -> OnePointTwo
      [] b = "2.0"  -> Two
      [] b = "-1.2" -> OnePointTwo
BoostNegative(b) == b = "-1.2"
BoostIsOne(b) == b = "1.0"

\* line 41: brightness = 0.299 * R + 0.587 * G + 0.114 * B, left to right.
brightness(px) ==
    FAdd(FAdd(FMul(C299, px[1]), FMul(C587, px[2])), FMul(C114, px[3]))

\* line 44: dark_mask = brightness < threshold
dark_mask(px, threshold) == FLess(brightness(px), threshold)

\* Mutant: the complement taken as the uint8 negation, (256 - c) mod 256.
ComplementNegate(c) == (256 - c) % 256

\* line 48: 255 - c in uint8 (no wrap-around: c <= 255).
Complement(c) == 255 - c

\* Mutant: no np.clip, so that astype(np.uint8) wraps modulo 256.
BoostWrap(c, boost) ==
    IF BoostNegative(boost) THEN 0
    ELSE Trunc(FMul(BoostBits(boost), c)) % 256

\* lines 53-56: np.clip(c * brightness_boost, 0, 255).astype(np.uint8)
BoostClip(c, boost) ==
    IF BoostNegative(boost) THEN 0
    ELSE Min(Trunc(FMul(BoostBits(boost), c)), 255)

\* lines 47-56 for one pixel's colour channel c.
inverted_rgb(c, dark, boost) ==
    LET inv == IF dark THEN Complement(c) ELSE c
    IN  IF BoostIsOne(boost) THEN inv
        ELSE IF dark THEN BoostClip(inv, boost) ELSE inv

\* Mutant: the mask applied to all four channels, alpha included.
InvertPixelWithAlpha(px, threshold, boost) ==
    The({ << inverted_rgb(px[1], dark, boost),
                inverted_rgb(px[2], dark, boost),
                inverted_rgb(px[3], dark, boost),
                inverted_rgb(px[4], dark, boost) >> :
             dark \in {dark_mask(px, threshold)} })

\* lines 37-59 for one pixel: the colour channels inverted, alpha kept.
InvertPixel(px, threshold, boost) ==
    The({ << inverted_rgb(px[1], dark, boost),
                inverted_rgb(px[2], dark, boost),
                inverted_rgb(px[3], dark, boost),
                px[4] >> :
             dark \in {dark_mask(px, threshold)} })

invert_dark_colors(image, threshold, boost) ==
    [r \in 1..Len(image) |->
        [c \in 1..Len(image[r]) |-> InvertPixel(image[r][c], threshold, boost)]]


(***************************************************************************)
(* generate_output_path (lines 119-136).  A string is a sequence of        *)
(* one-character strings; NoPath is None where a str may stand.  pathlib's *)
(* PurePosixPath is modelled by what it does: a path is a root ("", "/" or *)
(* "//") and the components left after dropping empty and "." ones.        *)
(***************************************************************************)
None == "None"
NoPath == <<"None">>
SEP == "/"
DOT == "."
PngExt == <<".", "p", "n", "g">>

RECURSIVE LeadingSeps(_)
LeadingSeps(s) ==
    IF s = <<>> \/ Head(s) # SEP THEN 0 ELSE 1 + LeadingSeps(Tail(s))

\* str.split('/'): the pieces between separators, empty ones included.
RECURSIVE SplitSep(_, _)
SplitSep(s, cur) ==
    IF s = <<>> THEN <<cur>>
    ELSE IF Head(s) = SEP THEN <<cur>> \o SplitSep(Tail(s), <<>>)
    ELSE SplitSep(Tail(s), Append(cur, Head(s)))

KeepPart(x) == x # <<>> /\ x # <<DOT>>

\* _PosixFlavour.splitroot and parse_parts: Path(s).
PurePath(s) ==
    LET n    == LeadingSeps(s)
        root == IF n = 0 THEN <<>> ELSE IF n = 2 THEN <<SEP, SEP>> ELSE <<SEP>>
        rel  == SubSeq(s, n + 1, Len(s))
    IN  [root |-> root, parts |-> SelectSeq(SplitSep(rel, <<>>), KeepPart)]

\* Path.name
PathName(p) == IF p.parts = <<>> THEN <<>> ELSE p.parts[Len(p.parts)]

\* str.rfind('.'), 0-based, -1 when absent.
RECURSIVE RFindDot(_, _)
RFindDot(name, i) ==
    IF i = 0 THEN -1 ELSE IF name[i] = DOT THEN i - 1 ELSE RFindDot(name, i - 1)

\* Path.stem: the name up to its last dot, unless that dot is first or last.
PathStem(p) ==
    LET name == PathName(p)
        i    == RFindDot(name, Len(name))
    IN  IF 0 < i /\ i < Len(name) - 1 THEN SubSeq(name, 1, i) ELSE name

\* Path.parent
PathParent(p) ==
    IF p.parts = <<>> THEN p
    ELSE [root |-> p.root, parts |-> SubSeq(p.parts, 1, Len(p.parts) - 1)]

\* Path.__truediv__: parent / name
PathJoin(p, s) ==
    The({IF child.root # <<>> THEN child
         ELSE [root |-> p.root, parts |-> p.parts \o child.parts] :
             child \in {PurePath(s)}})

RECURSIVE JoinSep(_)
JoinSep(parts) ==
    IF parts = <<>> THEN <<>>
    ELSE IF Len(parts) = 1 THEN parts[1]
    ELSE parts[1] \o <<SEP>> \o JoinSep(Tail(parts))

\* str(Path)
PathStr(p) ==
    IF p.root = <<>> /\ p.parts = <<>> THEN <<DOT>> ELSE p.root \o JoinSep(p.parts)

\* line 131: a Python truth test of None or a str.
Truthy(x) == x # NoPath /\ x # <<>>

\* Mutant: the suffix appended to the whole file name, extension kept.
generate_output_path_name(input_path, output_path, suffix) ==
    IF Truthy(output_path) THEN output_path
    ELSE LET output_name(input_pathobj) == PathName(input_pathobj) \o suffix \o PngExt
         IN  The({The({PathStr(joined) :
                          joined \in {PathJoin(PathParent(input_pathobj),
                                               output_name(input_pathobj))}}) :
                  input_pathobj \in {PurePath(input_path)}})

generate_output_path(input_path, output_path, suffix) ==
    IF Truthy(output_path) THEN output_path
    ELSE LET output_name(input_pathobj) == PathStem(input_pathobj) \o suffix \o PngExt
         IN  The({The({PathStr(joined) :
                          joined \in {PathJoin(PathParent(input_pathobj),
                                               output_name(input_pathobj))}}) :
                  input_pathobj \in {PurePath(input_path)}})


(***************************************************************************)
(* remove_background (lines 64-116) and main (lines 139-248).  The program *)
(* state is a record: main's position and locals, the file system, and the *)
(* history of the jobs (visited: the inputs taken so far; stages: the      *)
(* stages the current job went through; last: the outcome of the job that  *)
(* finished last; written, failed: how many jobs ended written, and how    *)
(* many ended missing or failed).  Each step is a function of the state,   *)
(* the arguments and what the environment answers.                         *)
(***************************************************************************)

\* A file is absent, an image (rows of RGB or RGBA pixels) or not an image.
Exists(fs, path) == path \in DOMAIN fs
WriteFile(fs, path, content) ==
    [q \in DOMAIN fs \cup {path} |-> IF q = path THEN content ELSE fs[q]]
ImageFile(px) == [kind |-> "image", px |-> px]
Garbage == [kind |-> "garbage", px |-> <<>>]
\* None where an image may stand.
NoImage == <<>>

\* lines 94-95: convert("RGB") drops an alpha channel.
ToRGB(px) ==
    [r \in 1..Len(px) |-> [c \in 1..Len(px[r]) |-> SubSeq(px[r][c], 1, 3)]]

\* line 98: Remover.process(image, type="rgba"); the mask is the model's answer.
ProcessRGBA(px, alpha) ==
    [r \in 1..Len(px) |-> [c \in 1..Len(px[r]) |-> Append(px[r][c], alpha)]]

Last(seq) == seq[Len(seq)]

InitRun(fs0) ==
    [pc |-> "parse", idx |-> 0, success_count |-> 0, total_count |-> 0,
     exit_code |-> None, fs |-> fs0,
     input_file |-> NoPath, output_file |-> NoPath, remover |-> None,
     input_image |-> NoImage, output_image |-> NoImage, ret |-> None,
     visited |-> <<>>, stages |-> <<>>, last |-> None,
     written |-> 0, failed |-> 0, summary |-> <<>>]

\* Mutant: the check off by one.
UsageErrorOffByOne(a) == Truthy(a.output) /\ Len(a.input) > 2

\* line 205, "args.output and len(args.input) > 1".
UsageError(a) == Truthy(a.output) /\ Len(a.input) > 1

\* lines 202-213: parser.error() exits with status 2.
ParseStep(s, a) ==
    IF UsageError(a)
    THEN [s EXCEPT !.pc = "exit", !.exit_code = 2]
    ELSE [s EXCEPT !.pc = "loop", !.success_count = 0,
                   !.total_count = Len(a.input)]

\* line 215: the for statement takes the next input, or the loop ends.
LoopStep(s, a) ==
    IF s.idx < Len(a.input)
    THEN [s EXCEPT !.pc = "exists", !.idx = s.idx + 1,
                   !.input_file = a.input[s.idx + 1],
                   !.output_file = NoPath, !.remover = None,
                   !.input_image = NoImage, !.output_image = NoImage,
                   !.ret = None, !.stages = <<"Pending">>,
                   !.visited = Append(@, a.input[s.idx + 1])]
    ELSE [s EXCEPT !.pc = "summary"]

LogEntry(s, st, wrote) ==
    [input |-> s.input_file, output |-> s.output_file, st |-> st, wrote |-> wrote]

\* Mutant: a missing input ends the loop (break for continue).
ExistsStepBreak(s, a) ==
    IF ~Exists(s.fs, s.input_file)
    THEN [s EXCEPT !.pc = "summary", !.stages = Append(@, "Missing"),
                   !.failed = @ + 1,
                   !.last = LogEntry(s, "Missing", NoImage)]
    ELSE [s EXCEPT !.pc = "remover",
                   !.output_file =
                       generate_output_path(s.input_file, a.output, a.suffix)]

\* lines 217-222: a missing input is reported and skipped; otherwise the
\* output path is resolved.
ExistsStep(s, a) ==
    IF ~Exists(s.fs, s.input_file)
    THEN [s EXCEPT !.pc = "loop", !.stages = Append(@, "Missing"),
                   !.failed = @ + 1,
                   !.last = LogEntry(s, "Missing", NoImage)]
    ELSE [s EXCEPT !.pc = "remover",
                   !.output_file =
                       generate_output_path(s.input_file, a.output, a.suffix)]

\* line 209
model_name(a) == IF a.fast THEN "fast" ELSE "base"

Fail(s, st) ==
    [s EXCEPT !.pc = "result", !.ret = FALSE, !.stages = Append(@, st),
              !.failed = @ + 1]

\* line 88: remover = Remover(mode=model_name)
RemoverStep(s, a, ok) ==
    IF ok
    THEN [s EXCEPT !.pc = "open", !.remover = model_name(a),
                   !.stages = Append(@, "RemoverReady")]
    ELSE Fail(s, "RemoverFailed")

\* lines 91-95: Image.open and convert("RGB")
OpenStep(s) ==
    IF Exists(s.fs, s.input_file) /\ s.fs[s.input_file].kind = "image"
    THEN [s EXCEPT !.pc = "process",
                   !.input_image = ToRGB(s.fs[s.input_file].px),
                   !.stages = Append(@, "Decoded")]
    ELSE Fail(s, "DecodeFailed")

\* line 98
ProcessStep(s, ok, alpha) ==
    IF ok
    THEN [s EXCEPT !.pc = "invert",
                   !.output_image = ProcessRGBA(s.input_image, alpha),
                   !.stages = Append(@, "Segmented")]
    ELSE Fail(s, "SegmentFailed")

\* Mutant: the inverter applied whether or not --dark-mode was given.
InvertStepAlways(s, a) ==
    [s EXCEPT !.pc = "save",
              !.output_image =
                  invert_dark_colors(s.output_image, a.invert_threshold,
                                     a.brightness_boost),
              !.stages = Append(@, "InvertApplied")]

\* lines 101-104
InvertStep(s, a) ==
    IF a.dark_mode
    THEN [s EXCEPT !.pc = "save",
                   !.output_image =
                       invert_dark_colors(s.output_image, a.invert_threshold,
                                          a.brightness_boost),
                   !.stages = Append(@, "InvertApplied")]
    ELSE [s EXCEPT !.pc = "save", !.stages = Append(@, "InvertSkipped")]

\* lines 107-109
SaveStep(s, ok) ==
    IF ok
    THEN [s EXCEPT !.pc = "result", !.ret = TRUE,
                   !.fs = WriteFile(@, s.output_file, ImageFile(s.output_image)),
                   !.stages = Append(@, "Written"), !.written = @ + 1]
    ELSE Fail(s, "EncodeFailed")

\* lines 228-241: the job's return value is counted.
ResultStep(s) ==
    [s EXCEPT !.pc = "loop",
              !.success_count = IF s.ret THEN @ + 1 ELSE @,
              !.last = LogEntry(s, Last(s.stages),
                                IF s.ret THEN s.output_image ELSE NoImage)]

\* Mutant: exit code 0 as soon as one job succeeded.
ExitCodeAnySuccess(s) == IF s.success_count > 0 THEN 0 ELSE 1

\* lines 244-248
ExitCode(s) == IF s.success_count = s.total_count THEN 0 ELSE 1
SummaryStep(s, a) ==
    [s EXCEPT !.pc = "exit",
              !.summary = IF s.total_count > 1 /\ ~a.quiet
                          THEN <<s.success_count, s.total_count>> ELSE <<>>,
              !.exit_code = ExitCode(s)]

\* remove_background for one input: the steps of lines 86-116 in order,
\* env naming the external call that fails (if any) and the model's mask.
RECURSIVE remove_background(_, _, _)
remove_background(s, a, env) ==
    CASE s.pc = "remover" -> remove_background(RemoverStep(s, a, env.fault # "remover"), a, env)
      [] s.pc = "open"    -> remove_background(OpenStep(s), a, env)
      [] s.pc = "process" -> remove_background(ProcessStep(s, env.fault # "process", env.alpha), a, env)
      [] s.pc = "invert"  -> remove_background(InvertStep(s, a), a, env)
      [] s.pc = "save"    -> remove_background(SaveStep(s, env.fault # "save"), a, env)
      [] OTHER            -> s

\* One iteration of the loop of line 215, from the for statement to the
\* count of the result.
Iteration(s, a, env) ==
    LET t == ExistsStep(LoopStep(s, a), a)
    IN  IF t.pc = "loop" THEN t ELSE ResultStep(remove_background(t, a, env))


(***************************************************************************)
(* State.  args and run belong to main(); runB is a second run of main()   *)
(* on the same arguments and files in which job `victim` is made to fail;  *)
(* img .. calls hold a call of invert_dark_colors and a second call on its *)
(* result; p_input .. p_calls hold a call of generate_output_path.         *)
(***************************************************************************)
VARIABLES args, run, runB, victim,
          img, thr, bst, once, twice, calls,
          p_input, p_output, p_suffix, p_result, p_calls

mainVars   == <<args, run, runB, victim>>
invertVars == <<img, thr, bst, once, twice, calls>>
pathVars   == <<p_input, p_output, p_suffix, p_result, p_calls>>
vars       == <<mainVars, invertVars, pathVars>>

\* The defaults of --invert-threshold and --brightness-boost.
DefaultThreshold == 128
DefaultBoost == "1.2"

MainIdle ==
    /\ args = None
    /\ run = None
    /\ runB = None
    /\ victim = 0
InvertIdle ==
    /\ img = <<>>
    /\ thr = 0
    /\ bst = "1.0"
    /\ once = <<>>
    /\ twice = <<>>
    /\ calls = 0
PathIdle ==
    /\ p_input = <<>>
    /\ p_output = NoPath
    /\ p_suffix = <<>>
    /\ p_result = NoPath
    /\ p_calls = 0

SeqsUpTo(S, n) == UNION {[1..k -> S] : k \in 1..n}

(***************************************************************************)
(* Spec: one run of main().                                                *)
(***************************************************************************)
MaxInputs == 3
PathA == <<"a", ".", "j">>
PathB == <<"a", ".", "p", "n", "g">>
PathC == <<"b", ".", "j">>
OutPath == <<"o", ".", "p", "n", "g">>
Suffixes == {<<>>, <<"_", "n">>}

\* What a path holds when it exists: a.j and b.j are RGB images, a.png is
\* an RGBA image or a file that does not decode.
Contents(path) ==
    IF path = PathB
    THEN {ImageFile(<< << <<0, 0, 0, 77>> >> >>), Garbage}
    ELSE IF path = PathA THEN {ImageFile(<< << <<200, 30, 40>> >> >>)}
    ELSE {ImageFile(<< << <<128, 128, 128>> >> >>)}

FileSystems(paths) ==
    UNION { {f \in [present -> UNION {Contents(q) : q \in present}] :
                \A q \in present : f[q] \in Contents(q)} :
            present \in SUBSET paths }

ArgSets(paths, n, outputs, suffixes, darks, quiets) ==
    [input : SeqsUpTo(paths, n), output : outputs, suffix : suffixes,
     fast : {FALSE}, dark_mode : darks,
     invert_threshold : {DefaultThreshold}, brightness_boost : {DefaultBoost},
     quiet : quiets]

Init ==
    /\ args \in ArgSets({PathA, PathB}, MaxInputs, {NoPath, <<>>, OutPath},
                       {<<"_", "n">>}, BOOLEAN, BOOLEAN)
    /\ \E fs0 \in FileSystems({PathA, PathB}) : run = InitRun(fs0)
    /\ runB = None
    /\ victim = 0
    /\ InvertIdle
    /\ PathIdle

Advance(next) ==
    /\ run' = next
    /\ UNCHANGED <<args, runB, victim, invertVars, pathVars>>

ParseArgs   == run.pc = "parse" /\ Advance(ParseStep(run, args))
NextInput   == run.pc = "loop" /\ Advance(LoopStep(run, args))
CheckExists == run.pc = "exists" /\ Advance(ExistsStep(run, args))
MakeRemover ==
    run.pc = "remover" /\ \E ok \in BOOLEAN : Advance(RemoverStep(run, args, ok))
OpenImage   == run.pc = "open" /\ Advance(OpenStep(run))
Process ==
    run.pc = "process"
    /\ \E ok \in BOOLEAN, alpha \in {0, 255} : Advance(ProcessStep(run, ok, alpha))
DarkMode    == run.pc = "invert" /\ Advance(InvertStep(run, args))
Save        == run.pc = "save" /\ \E ok \in BOOLEAN : Advance(SaveStep(run, ok))
CountResult == run.pc = "result" /\ Advance(ResultStep(run))
Summary     == run.pc = "summary" /\ Advance(SummaryStep(run, args))

Next ==
    \/ ParseArgs \/ NextInput \/ CheckExists \/ MakeRemover \/ OpenImage
    \/ Process \/ DarkMode \/ Save \/ CountResult \/ Summary

Spec == Init /\ [][Next]_vars

\* main() is one sequential process: a step that can be taken is taken.
FairSpec == Spec /\ WF_vars(Next)

(***************************************************************************)
(* SpecInvert: invert_dark_colors on an image, then on its result.         *)
(***************************************************************************)
MaxSide == 2
Palette ==
    << <<0, 0, 0, 255>>,       <<128, 128, 128, 255>>, <<255, 255, 255, 0>>,
       <<200, 30, 40, 77>>,    <<1, 1, 1, 0>>,         <<127, 127, 127, 255>>,
       <<100, 150, 230, 255>>, <<30, 60, 10, 77>>,     <<0, 72, 24, 255>>,
       <<3, 3, 3, 128>> >>
\* --invert-threshold is any int: 0..255 and the values around that range.
Thresholds == (-1)..257

TestImage(h, w, seed) ==
    [r \in 1..h |->
        [c \in 1..w |-> Palette[((seed + (r - 1) * w + (c - 1)) % Len(Palette)) + 1]]]

InitInvert ==
    /\ \E h \in 1..MaxSide, w \in 1..MaxSide, seed \in 0..(Len(Palette) - 1) :
            img = TestImage(h, w, seed)
    /\ thr \in Thresholds
    /\ bst \in BoostNames
    /\ once = <<>>
    /\ twice = <<>>
    /\ calls = 0
    /\ MainIdle
    /\ PathIdle

CallInvert ==
    /\ calls = 0
    /\ once' = invert_dark_colors(img, thr, bst)
    /\ calls' = 1
    /\ UNCHANGED <<img, thr, bst, twice, mainVars, pathVars>>

CallInvertAgain ==
    /\ calls = 1
    /\ twice' = invert_dark_colors(once, thr, bst)
    /\ calls' = 2
    /\ UNCHANGED <<img, thr, bst, once, mainVars, pathVars>>

NextInvert == CallInvert \/ CallInvertAgain
SpecInvert == InitInvert /\ [][NextInvert]_vars

(***************************************************************************)
(* SpecPath: generate_output_path on an input path, an optional explicit   *)
(* output and a suffix.                                                    *)
(***************************************************************************)
MaxPathLen == 4
MaxSuffixLen == 2
Strings(alphabet, n) == UNION {[1..k -> alphabet] : k \in 0..n}
PhotoJpg ==
    <<"/", "a", "/", "b", "/", "p", "h", "o", "t", "o", ".", "j", "p", "g">>
CustomPng == <<"/", "x", "/", "c", ".", "p", "n", "g">>
Nobg == <<"_", "n", "o", "b", "g">>

InitPath ==
    /\ p_input \in Strings({SEP, DOT, "a"}, MaxPathLen) \cup {PhotoJpg}
    /\ p_output \in {NoPath, <<>>, CustomPng}
    /\ p_suffix \in Strings({"_", DOT, SEP}, MaxSuffixLen) \cup {Nobg}
    /\ p_result = NoPath
    /\ p_calls = 0
    /\ MainIdle
    /\ InvertIdle

CallResolve ==
    /\ p_calls = 0
    /\ p_result' = generate_output_path(p_input, p_output, p_suffix)
    /\ p_calls' = 1
    /\ UNCHANGED <<p_input, p_output, p_suffix, mainVars, invertVars>>

NextPath == CallResolve
SpecPath == InitPath /\ [][NextPath]_vars

(***************************************************************************)
(* SpecPair: two runs of main() on the same arguments and files, job by    *)
(* job.  The environment answers both runs alike, except that in runB one  *)
(* of the external calls of job `victim` is made to fail.                  *)
(***************************************************************************)
MaxPairInputs == 2
Calls == {"remover", "process", "save"}
Envs == [fault : {"none"} \cup Calls, alpha : {0, 255}]

\* What the environment answers job i of runB when it answers env in run.
EnvsB(i, env) ==
    IF i = victim THEN {[env EXCEPT !.fault = call] : call \in Calls} ELSE {env}

\* b.j always exists; a.j and a.png may be absent.
PairFileSystems ==
    {f \in FileSystems({PathA, PathB, PathC}) : PathC \in DOMAIN f}

InitPair ==
    /\ args \in ArgSets({PathA, PathB, PathC}, MaxPairInputs, {NoPath},
                        Suffixes, {TRUE}, {FALSE})
    /\ \E fs0 \in PairFileSystems :
            /\ run = InitRun(fs0)
            /\ runB = InitRun(fs0)
    /\ victim \in 1..Len(args.input)
    /\ InvertIdle
    /\ PathIdle

PairParse ==
    /\ run.pc = "parse"
    /\ run' = ParseStep(run, args)
    /\ runB' = ParseStep(runB, args)
    /\ UNCHANGED <<args, victim, invertVars, pathVars>>

PairJob ==
    /\ run.pc = "loop"
    /\ run.idx < Len(args.input)
    /\ \E env \in Envs : \E envB \in EnvsB(run.idx + 1, env) :
          /\ run' = Iteration(run, args, env)
          /\ runB' = Iteration(runB, args, envB)
    /\ UNCHANGED <<args, victim, invertVars, pathVars>>

PairSummary ==
    /\ run.pc = "loop"
    /\ run.idx = Len(args.input)
    /\ run' = SummaryStep(LoopStep(run, args), args)
    /\ runB' = SummaryStep(LoopStep(runB, args), args)
    /\ UNCHANGED <<args, victim, invertVars, pathVars>>

NextPair == PairParse \/ PairJob \/ PairSummary
SpecPair == InitPair /\ [][NextPair]_vars

(***************************************************************************)
(* Properties of invert_dark_colors, checked under SpecInvert.             *)
(***************************************************************************)
Positions(image) ==
    {pos \in (1..Len(image)) \X (1..MaxSide + 1) : pos[2] <= Len(image[pos[1]])}
At(image, pos) == image[pos[1]][pos[2]]
RGB(px) == <<px[1], px[2], px[3]>>
ComplementRGB(px) == <<255 - px[1], 255 - px[2], 255 - px[3]>>
SameShape(a, b) ==
    /\ Len(a) = Len(b)
    /\ \A r \in 1..Len(a) : Len(a[r]) = Len(b[r])

\* The luma 0.299 R + 0.587 G + 0.114 B in exact arithmetic, times 1000.
Luma1000(px) == 299 * px[1] + 587 * px[2] + 114 * px[3]

\* The boosts as the exact fractions their texts denote.
BoostNum(b) == CASE b = "0.5" -> 1 [] b = "1.0" -> 1 [] b = "1.2" -> 6
                 [] b = "2.0" -> 2 [] b = "-1.2" -> -6
BoostDen(b) == CASE b = "0.5" -> 2 [] b = "1.0" -> 1 [] b = "1.2" -> 5
                 [] b = "2.0" -> 1 [] b = "-1.2" -> 5

\* C5: invert_dark_colors returns an image of the dimensions of its input
\* in which every pixel has the alpha value it had, for every threshold and
\* boost (also when applied to its own result).
C5_AlphaUntouched ==
    /\ calls >= 1 =>
          /\ SameShape(once, img)
          /\ \A pos \in Positions(img) : At(once, pos)[4] = At(img, pos)[4]
    /\ calls = 2 =>
          /\ SameShape(twice, once)
          /\ \A pos \in Positions(once) : At(twice, pos)[4] = At(once, pos)[4]

\* C5's case: a pixel with a partial alpha whose colour was changed, in an
\* image of more than one row and column.
C5_Witness ==
    /\ calls = 1
    /\ Len(img) = 2 /\ Len(img[1]) = 2
    /\ \E pos \in Positions(img) :
          /\ At(img, pos)[4] = 77
          /\ RGB(At(once, pos)) # RGB(At(img, pos))

\* C6 as claimed: a pixel is changed only if its luma is strictly below the
\* threshold; a pixel whose luma is the threshold or more keeps R, G and B,
\* and (boost 1.0) a pixel whose luma is below it is complemented.
C6_StrictThreshold ==
    calls >= 1 =>
        \A pos \in Positions(img) :
            LET px == At(img, pos)
            IN  /\ Luma1000(px) >= 1000 * thr => RGB(At(once, pos)) = RGB(px)
                /\ (Luma1000(px) < 1000 * thr /\ bst = "1.0")
                        => RGB(At(once, pos)) = ComplementRGB(px)

\* C7 as claimed: with boost 1.0 and a threshold in 0..255, a second
\* application restores the RGB values of every pixel.
C7_DoubleInversionRestores ==
    (calls = 2 /\ bst = "1.0" /\ thr \in 0..255) =>
        \A pos \in Positions(img) : RGB(At(twice, pos)) = RGB(At(img, pos))

\* C7 amended: with boost 1.0, a second application restores a pixel unless
\* the pixel is dark and its complement is not; such a pixel stays
\* complemented.
C7_DoubleInversion ==
    (calls = 2 /\ bst = "1.0") =>
        \A pos \in Positions(img) :
            LET px == At(img, pos)
                cx == ComplementRGB(px)
            IN  RGB(At(twice, pos)) =
                    IF dark_mask(px, thr) /\ ~dark_mask(cx, thr)
                    THEN cx ELSE RGB(px)

\* C7's case: one image holds a dark pixel that the second application
\* restored and a dark pixel that it left complemented.
C7_Witness ==
    /\ calls = 2 /\ bst = "1.0" /\ thr \in 0..255
    /\ \E pos \in Positions(img) :
          /\ RGB(At(once, pos)) = ComplementRGB(At(img, pos))
          /\ RGB(At(twice, pos)) = RGB(At(img, pos))
    /\ \E pos \in Positions(img) :
          /\ RGB(At(once, pos)) = ComplementRGB(At(img, pos))
          /\ RGB(At(twice, pos)) = ComplementRGB(At(img, pos))

\* C8: for a dark pixel and a positive boost, every output channel is the
\* float64 product (255 - c) * boost, cut to its integer part and saturated
\* at 255 (never wrapped), a value in 0..255; it is the integer part of the
\* exact product for the boosts drawn, and 255 - c for boost 1.0.
C8_BoostSaturates ==
    (calls = 1 /\ ~BoostNegative(bst)) =>
        \A pos \in Positions(img) :
            dark_mask(At(img, pos), thr) =>
                \A ch \in 1..3 :
                    LET k   == 255 - At(img, pos)[ch]
                        out == At(once, pos)[ch]
                    IN  /\ out \in 0..255
                        /\ out = Min(255, Trunc(FMul(BoostBits(bst), k)))
                        /\ out = Min(255, (k * BoostNum(bst)) \div BoostDen(bst))
                        /\ bst = "1.0" => out = k

\* C8's case: boost 1.2 on a dark pixel with one channel whose product
\* exceeds 255 and one whose product is not an integer.
C8_Witness ==
    /\ calls = 1 /\ bst = "1.2"
    /\ \E pos \in Positions(img) :
          /\ dark_mask(At(img, pos), thr)
          /\ \E ch \in 1..3 :
                /\ (255 - At(img, pos)[ch]) * 6 > 255 * 5
                /\ At(once, pos)[ch] = 255
          /\ \E ch \in 1..3 :
                /\ ((255 - At(img, pos)[ch]) * 6) % 5 # 0
                /\ At(once, pos)[ch] < 255

(***************************************************************************)
(* Properties of generate_output_path, checked under SpecPath.             *)
(***************************************************************************)
HasSep(str) == \E i \in 1..Len(str) : str[i] = SEP

\* The result lies in the directory of the input and is named by the
\* input's stem, the suffix and ".png".
DerivedFrom(result, input, suffix) ==
    /\ PathParent(PurePath(result)) = PathParent(PurePath(input))
    /\ PathName(PurePath(result)) = PathStem(PurePath(input)) \o suffix \o PngExt

\* C9 as claimed: an explicit non-empty output is returned verbatim;
\* otherwise, for every input path and every suffix, the result is the path
\* in the input's directory named <stem><suffix>.png.
C9_OutputPathAnySuffix ==
    p_calls = 1 =>
        /\ Truthy(p_output) => p_result = p_output
        /\ ~Truthy(p_output) => DerivedFrom(p_result, p_input, p_suffix)

\* C9 amended: the same, for every suffix that holds no path separator.
C9_OutputPath ==
    p_calls = 1 =>
        /\ Truthy(p_output) => p_result = p_output
        /\ (~Truthy(p_output) /\ ~HasSep(p_suffix))
                => DerivedFrom(p_result, p_input, p_suffix)
        /\ (p_input = PhotoJpg /\ p_suffix = Nobg /\ ~Truthy(p_output))
                => p_result = <<"/", "a", "/", "b", "/", "p", "h", "o", "t", "o",
                                "_", "n", "o", "b", "g", ".", "p", "n", "g">>

\* C9's case: a path with a directory and an extension, resolved without an
\* explicit output and with the empty suffix.
C9_Witness ==
    /\ p_calls = 1
    /\ p_output = <<>>
    /\ p_suffix = <<>>
    /\ p_input = PhotoJpg
    /\ p_result = <<"/", "a", "/", "b", "/", "p", "h", "o", "t", "o",
                    ".", "p", "n", "g">>

(***************************************************************************)
(* Properties of main(), checked under Spec.                               *)
(***************************************************************************)
Range(seq) == {seq[i] : i \in 1..Len(seq)}
IsPrefix(a, b) == Len(a) <= Len(b) /\ a = SubSeq(b, 1, Len(a))
Exited == run.pc = "exit"
Ran == Exited /\ ~UsageError(args)

\* C1: for arguments that pass validation, main() exits with 0 or 1; with 0
\* exactly when success_count = total_count, which is exactly when every
\* input was written; and with 1 whenever a job ended missing or failed.
C1_ExitCode ==
    Ran =>
        /\ run.exit_code \in {0, 1}
        /\ run.exit_code = 0 <=> run.success_count = run.total_count
        /\ run.exit_code = 0 <=> run.written = Len(args.input)
        /\ run.failed > 0 => run.exit_code = 1

\* C1's case: a run of several inputs that wrote some and failed others.
C1_Witness ==
    /\ Ran
    /\ run.written >= 1
    /\ run.failed >= 1
    /\ run.exit_code = 1

\* C2: no failure of a job ends the batch.  The inputs are taken one by one
\* in the given order, the loop ends only after the last one, every job
\* taken has ended written or failed when the next is taken, and the
\* program exits, with success_count (and the summary, when one is printed)
\* equal to the number of jobs written.
C2_Safe ==
    /\ run.pc # "parse" => run.visited = SubSeq(args.input, 1, run.idx)
    /\ run.pc = "summary" => run.idx = Len(args.input)
    /\ run.pc \in {"loop", "summary"} =>
          /\ run.written + run.failed = run.idx
          /\ run.success_count = run.written
    /\ Ran =>
          /\ run.visited = args.input
          /\ run.written + run.failed = Len(args.input)
          /\ run.success_count = run.written
          /\ run.summary # <<>> <=> (Len(args.input) > 1 /\ ~args.quiet)
          /\ run.summary # <<>> => run.summary = <<run.written, Len(args.input)>>

\* C2: no failure of a job aborts the batch: the above holds throughout, and
\* main() reaches its exit.
C2_BatchContinues == []C2_Safe /\ <>Exited

\* C2's case: three inputs of which the second does not exist; the summary
\* reports 2 of 3 and the exit code is 1.
C2_Witness ==
    /\ Ran
    /\ Len(args.input) = 3
    /\ ~Exists(run.fs, args.input[2])
    /\ run.written = 2
    /\ run.summary = <<2, 3>>
    /\ run.exit_code = 1

\* C4: an explicit output with more than one input is rejected before any
\* job runs: no input is taken, checked, decoded, segmented or written, and
\* the exit code is not 0; so an explicit output is the resolved output path
\* only of a run with exactly one input.
C4_UsageError ==
    /\ UsageError(args) =>
          /\ run.pc \in {"parse", "exit"}
          /\ run.idx = 0 /\ run.visited = <<>> /\ run.stages = <<>>
          /\ run.remover = None /\ run.input_image = NoImage
          /\ run.written = 0 /\ run.failed = 0
          /\ Exited => run.exit_code # 0
    /\ (Truthy(args.output) /\ run.output_file # NoPath) =>
          /\ Len(args.input) = 1
          /\ run.output_file = args.output

\* C4's case: two inputs and an explicit output, exited.
C4_Witness ==
    /\ Exited
    /\ Len(args.input) = 2
    /\ args.output = OutPath
    /\ run.exit_code = 2

\* The stage Invert of a job, by --dark-mode.
InvertStage == IF args.dark_mode THEN "InvertApplied" ELSE "InvertSkipped"

\* C10 as claimed: every job goes Pending -> (Missing | Decoded) ->
\* (SegmentFailed | Segmented) -> (InvertApplied | InvertSkipped) ->
\* (EncodeFailed | Written), and the segmentation capability is touched
\* only after the input was decoded.
C10_ClaimedMachine ==
    /\ run.remover # None => "Decoded" \in Range(run.stages)
    /\ (run.pc = "result" /\ ~run.ret) => "Decoded" \in Range(run.stages)

\* The stages of a job in the order of the code.
JobPaths ==
    { <<"Pending", "Missing">>,
      <<"Pending", "RemoverFailed">>,
      <<"Pending", "RemoverReady", "DecodeFailed">>,
      <<"Pending", "RemoverReady", "Decoded", "SegmentFailed">>,
      <<"Pending", "RemoverReady", "Decoded", "Segmented", InvertStage,
        "EncodeFailed">>,
      <<"Pending", "RemoverReady", "Decoded", "Segmented", InvertStage,
        "Written">> }

\* C10 amended: every job goes Pending -> (Missing | RemoverFailed |
\* RemoverReady) -> (DecodeFailed | Decoded) -> (SegmentFailed | Segmented)
\* -> (InvertApplied | InvertSkipped) -> (EncodeFailed | Written).  A
\* missing input ends the job at once; the image is segmented only after it
\* was decoded to RGB; the inverter runs exactly when dark mode is on and the
\* segmentation succeeded; remove_background returns True only from Written,
\* and only such a job is counted.
C10_JobStateMachine ==
    /\ run.stages = <<>> \/ \E path \in JobPaths : IsPrefix(run.stages, path)
    /\ (run.stages # <<>> /\ Last(run.stages) = "Missing")
          => ~Exists(run.fs, run.input_file)
    /\ run.output_image # NoImage =>
          /\ run.input_image # NoImage
          /\ \A r \in 1..Len(run.input_image) :
                \A c \in 1..Len(run.input_image[r]) :
                    Len(run.input_image[r][c]) = 3
    /\ (run.pc = "result" /\ run.ret) => Last(run.stages) = "Written"
    /\ (run.pc = "result" /\ ~run.ret) => Last(run.stages) \in
          {"RemoverFailed", "DecodeFailed", "SegmentFailed", "EncodeFailed"}
    /\ (run.stages # <<>> /\ Last(run.stages) = "Written") =>
          /\ Exists(run.fs, run.output_file)
          /\ run.fs[run.output_file] = ImageFile(run.output_image)
    /\ run.success_count <= run.written
    /\ run.pc = "loop" => run.success_count = run.written

\* C10's case: a job of a dark-mode run that went through every stage and
\* was counted.
C10_Witness ==
    /\ run.pc = "loop"
    /\ args.dark_mode
    /\ run.stages = <<"Pending", "RemoverReady", "Decoded", "Segmented",
                      "InvertApplied", "Written">>
    /\ run.success_count = 1

(***************************************************************************)
(* Properties of two runs of main(), checked under SpecPair.               *)
(***************************************************************************)
Succeeded(entry) == entry.st = "Written"

\* C3 as claimed: in two runs on the same inputs and configuration that
\* differ only in whether job `victim` fails, every other job has the same
\* outcome and writes the same output, also when its input path is the
\* resolved output path of another job.
C3_SiblingsUnaffected ==
    (run.pc # "parse" /\ run.idx >= 1 /\ run.idx # victim) =>
        /\ Succeeded(run.last) <=> Succeeded(runB.last)
        /\ run.last.output = runB.last.output
        /\ run.last.wrote = runB.last.wrote

=============================================================================
